---- MODULE Spec2Model ----
(***************************************************************************)
(* toon.js v0.2: the TOON uniform-block parser (src/toon.js).              *)
(*                                                                         *)
(* Text is modelled as a sequence of one-character strings, so that        *)
(* split, trim, the header regular expression and Number() are computed    *)
(* character by character, as the JavaScript does.                         *)
(***************************************************************************)
EXTENDS Integers, Sequences, FiniteSets, TLC

VARIABLES
  text,        \* parseFromString's argument
  hasConsole,  \* host: typeof console !== 'undefined'
  pc,          \* position in parseFromString / parseValue
  lines,       \* the normalized lines
  i,           \* the line index (0-based, as in the code)
  result,      \* the Document under construction, keys in insertion order
  header,      \* { name, count, fields } of the open block
  rows,        \* the rows of the open block
  warnings,    \* what console.warn has been called with during the call
  raw,         \* parseValue's argument (SpecValue)
  ret,         \* parseValue's return value (SpecValue)
  linesArg,    \* parseFromLines's argument (SpecLines)
  returned,    \* what the calls that have completed gave the caller, oldest first
  heap         \* the record lists (arrays) allocated so far, by identity

vars ==
  <<text, hasConsole, pc, lines, i, result, header, rows, warnings, raw, ret,
    linesArg, returned, heap>>

(***************************************************************************)
(* Bounds of the model.                                                    *)
(***************************************************************************)
MaxLines == 4
MaxParts == 3
MaxCalls == 3

(***************************************************************************)
(* Characters and character classes.                                       *)
(***************************************************************************)
DigitChars == <<"0", "1", "2", "3", "4", "5", "6", "7", "8", "9">>

HexChars ==
  <<"0", "1", "2", "3", "4", "5", "6", "7", "8", "9",
    "a", "b", "c", "d", "e", "f", "A", "B", "C", "D", "E", "F">>

Digits == {DigitChars[k] : k \in 1..10}

HexDigits == {HexChars[k] : k \in 1..22}

Letters ==
  {"a", "b", "c", "d", "e", "f", "g", "h", "i", "j", "k", "l", "m",
   "n", "o", "p", "q", "r", "s", "t", "u", "v", "w", "x", "y", "z",
   "A", "B", "C", "D", "E", "F", "G", "H", "I", "J", "K", "L", "M",
   "N", "O", "P", "Q", "R", "S", "T", "U", "V", "W", "X", "Y", "Z"}

\* \w of the regular expressions
WordChars == Letters \cup Digits \cup {"_"}

\* what String.prototype.trim removes (those of it that a TLA+ string can hold)
WhiteSpace == {" ", "\t", "\n", "\r", "\f"}

\* what . of a regular expression does not match
LineTerminators == {"\n", "\r"}

DigitVal(c) == (CHOOSE k \in 1..10 : DigitChars[k] = c) - 1

HexVal(c) ==
  LET k == CHOOSE n \in 1..22 : HexChars[n] = c
  IN  IF k <= 16 THEN k - 1 ELSE k - 7

(***************************************************************************)
(* String primitives: trim, startsWith, split.                             *)
(***************************************************************************)
RECURSIVE PrefixFrom(_, _, _)
PrefixFrom(s, S, n) ==
  IF n < Len(s) /\ s[n + 1] \in S THEN PrefixFrom(s, S, n + 1) ELSE n

\* the length of the longest prefix of s made of characters of S
PrefixLen(s, S) == PrefixFrom(s, S, 0)

RECURSIVE SuffixFrom(_, _, _)
SuffixFrom(s, S, n) ==
  IF n < Len(s) /\ s[Len(s) - n] \in S THEN SuffixFrom(s, S, n + 1) ELSE n

\* the length of the longest suffix of s made of characters of S
SuffixLen(s, S) == SuffixFrom(s, S, 0)

Drop(s, n) == SubSeq(s, n + 1, Len(s))

Take(s, n) == SubSeq(s, 1, n)

Trim(s) ==
  LET a == PrefixLen(s, WhiteSpace)
  IN  IF a = Len(s) THEN <<>>
      ELSE SubSeq(s, a + 1, Len(s) - SuffixLen(s, WhiteSpace))

StartsWith(s, p) == Len(s) >= Len(p) /\ Take(s, Len(p)) = p

RECURSIVE Split(_, _)
\* s.split(c) for a one-character separator: empty segments are kept
Split(s, c) ==
  LET n == PrefixLen(s, {s[k] : k \in 1..Len(s)} \ {c})
  IN  IF n = Len(s) THEN <<s>>
      ELSE <<Take(s, n)>> \o Split(Drop(s, n + 1), c)

RECURSIVE Join(_, _)
\* ls.join(c)
Join(ls, c) ==
  IF ls = <<>> THEN <<>>
  ELSE IF Len(ls) = 1 THEN ls[1]
  ELSE ls[1] \o <<c>> \o Join(Tail(ls), c)

RECURSIVE SelectNonEmpty(_)
\* .filter(Boolean) on an array of strings: the empty string is falsy
SelectNonEmpty(ss) ==
  IF ss = <<>> THEN <<>>
  ELSE IF ss[1] = <<>> THEN SelectNonEmpty(Tail(ss))
  ELSE <<ss[1]>> \o SelectNonEmpty(Tail(ss))

\* .split(',').map(x => x.trim()).filter(Boolean)
SplitTrimFilter(s) ==
  LET parts == Split(s, ",")
  IN  SelectNonEmpty([k \in 1..Len(parts) |-> Trim(parts[k])])

(***************************************************************************)
(* JavaScript values a record can hold. One record shape for all of them,  *)
(* so that any two values can be compared.                                 *)
(*   number: (-1)^neg * mant * 10^exp, mant without trailing zeros         *)
(***************************************************************************)
JSBool(b) == [kind |-> "boolean", b |-> b, s |-> <<>>, neg |-> FALSE, mant |-> 0, exp |-> 0]

JSNull == [kind |-> "null", b |-> FALSE, s |-> <<>>, neg |-> FALSE, mant |-> 0, exp |-> 0]

JSStr(s) == [kind |-> "string", b |-> FALSE, s |-> s, neg |-> FALSE, mant |-> 0, exp |-> 0]

JSInfinity(neg) == [kind |-> "infinity", b |-> FALSE, s |-> <<>>, neg |-> neg, mant |-> 0, exp |-> 0]

NaN == [kind |-> "NaN", b |-> FALSE, s |-> <<>>, neg |-> FALSE, mant |-> 0, exp |-> 0]

Undefined == [kind |-> "undefined", b |-> FALSE, s |-> <<>>, neg |-> FALSE, mant |-> 0, exp |-> 0]

RECURSIVE NumDigits(_)
NumDigits(n) == IF n < 10 THEN 1 ELSE 1 + NumDigits(n \div 10)

RECURSIVE JSNum(_, _, _)
JSNum(neg, mant, exp) ==
  IF mant = 0
    THEN [kind |-> "number", b |-> FALSE, s |-> <<>>, neg |-> neg, mant |-> 0, exp |-> 0]
  ELSE IF mant % 10 = 0 THEN JSNum(neg, mant \div 10, exp + 1)
  ELSE IF NumDigits(mant) + exp > 309 THEN JSInfinity(neg)
  ELSE IF NumDigits(mant) + exp < -323
    THEN [kind |-> "number", b |-> FALSE, s |-> <<>>, neg |-> neg, mant |-> 0, exp |-> 0]
  ELSE [kind |-> "number", b |-> FALSE, s |-> <<>>, neg |-> neg, mant |-> mant, exp |-> exp]

RECURSIVE ToInt(_, _)
\* the value of a digit string in a base
ToInt(ds, base) ==
  IF ds = <<>> THEN 0
  ELSE ToInt(Take(ds, Len(ds) - 1), base) * base
         + (IF base = 10 THEN DigitVal(ds[Len(ds)]) ELSE HexVal(ds[Len(ds)]))

(***************************************************************************)
(* Number(t): StringToNumber of ECMAScript.                                *)
(*   StrWhiteSpace? StrNumericLiteral? StrWhiteSpace?                      *)
(*   StrNumericLiteral: [+-]? (Infinity | digits [. digits?] [exp]         *)
(*                              | . digits [exp])                          *)
(*                    | 0x hex+ | 0o octal+ | 0b binary+   (unsigned)      *)
(* The empty string converts to +0.                                        *)
(***************************************************************************)
cInfinity == <<"I", "n", "f", "i", "n", "i", "t", "y">>

AllIn(s, S) == \A k \in 1..Len(s) : s[k] \in S

\* StrUnsignedDecimalLiteral, with the sign already read
StrDecimal(u, neg) ==
  LET ip     == PrefixLen(u, Digits)
      r1     == Drop(u, ip)
      hasDot == r1 # <<>> /\ r1[1] = "."
      r1b    == IF hasDot THEN Tail(r1) ELSE r1
      fp     == IF hasDot THEN PrefixLen(r1b, Digits) ELSE 0
      r2     == Drop(r1b, fp)
      hasExp == r2 # <<>> /\ r2[1] \in {"e", "E"}
      r3     == IF hasExp THEN Tail(r2) ELSE r2
      eSign  == hasExp /\ r3 # <<>> /\ r3[1] \in {"+", "-"}
      ed     == IF eSign THEN Tail(r3) ELSE r3
      e      == IF ~hasExp THEN 0
                ELSE IF eSign /\ r3[1] = "-" THEN 0 - ToInt(ed, 10)
                ELSE ToInt(ed, 10)
      okMant == ip > 0 \/ fp > 0
      okExp  == IF hasExp THEN ed # <<>> /\ AllIn(ed, Digits) ELSE r2 = <<>>
  IN  IF u = cInfinity THEN JSInfinity(neg)
      ELSE IF okMant /\ okExp
        THEN JSNum(neg, ToInt(Take(u, ip) \o Take(r1b, fp), 10), e - fp)
      ELSE NaN

\* NonDecimalIntegerLiteral
IsNonDecimal(t) ==
  /\ Len(t) >= 3
  /\ t[1] = "0"
  /\ \/ t[2] \in {"x", "X"} /\ AllIn(Drop(t, 2), HexDigits)
     \/ t[2] \in {"o", "O"} /\ AllIn(Drop(t, 2), {"0", "1", "2", "3", "4", "5", "6", "7"})
     \/ t[2] \in {"b", "B"} /\ AllIn(Drop(t, 2), {"0", "1"})

NonDecimalBase(t) ==
  IF t[2] \in {"x", "X"} THEN 16 ELSE IF t[2] \in {"o", "O"} THEN 8 ELSE 2

StringToNumber(str) ==
  LET t == Trim(str)
  IN  IF t = <<>> THEN JSNum(FALSE, 0, 0)
      ELSE IF IsNonDecimal(t) THEN JSNum(FALSE, ToInt(Drop(t, 2), NonDecimalBase(t)), 0)
      ELSE IF t[1] = "-" THEN StrDecimal(Tail(t), TRUE)
      ELSE IF t[1] = "+" THEN StrDecimal(Tail(t), FALSE)
      ELSE StrDecimal(t, FALSE)

(***************************************************************************)
(* parseValue (src/toon.js 83-97)                                          *)
(***************************************************************************)
cTrue == <<"t", "r", "u", "e">>

cFalse == <<"f", "a", "l", "s", "e">>

cNull == <<"n", "u", "l", "l">>

cQuote == "\""

\* t.replace(/^"(.*)"$/, '$1'): . matches no line terminator
StripQuotes(t) ==
  IF /\ Len(t) >= 2
     /\ t[1] = cQuote
     /\ t[Len(t)] = cQuote
     /\ \A k \in 2..(Len(t) - 1) : t[k] \notin LineTerminators
    THEN SubSeq(t, 2, Len(t) - 1)
    ELSE t

\* ParseValue with the quotes stripped before the boolean, null and numeric rules
ParseValueUnquotesFirst(rawToken) ==
  LET t   == StripQuotes(Trim(rawToken))
      num == StringToNumber(t)
  IN  IF t = cTrue THEN JSBool(TRUE)
      ELSE IF t = cFalse THEN JSBool(FALSE)
      ELSE IF t = cNull THEN JSNull
      ELSE IF num # NaN THEN num
      ELSE JSStr(t)

ParseValue(rawToken) ==
  LET t   == Trim(rawToken)
      num == StringToNumber(t)
  IN  IF t = cTrue THEN JSBool(TRUE)
      ELSE IF t = cFalse THEN JSBool(FALSE)
      ELSE IF t = cNull THEN JSNull
      ELSE IF num # NaN THEN num
      ELSE JSStr(StripQuotes(t))

(***************************************************************************)
(* isHeader and parseHeader (src/toon.js 47-70): one regular expression,   *)
(* anchored at both ends:                                                  *)
(*   a letter or _, any number of \w, "[", one or more digits, "]", "{",   *)
(*   one or more characters other than "}", "}", ":"                       *)
(* Each repetition is followed by a character it cannot match, so the      *)
(* longest run is the only match.                                          *)
(***************************************************************************)
NoMatch == [ok |-> FALSE, name |-> <<>>, digits |-> <<>>, body |-> <<>>]

MatchHeader(line) ==
  LET idLen == IF line # <<>> /\ line[1] \in Letters \cup {"_"}
                 THEN 1 + PrefixLen(Tail(line), WordChars)
                 ELSE 0
      a     == Drop(line, idLen)
      nd    == IF a # <<>> /\ a[1] = "[" THEN PrefixLen(Tail(a), Digits) ELSE 0
      b     == Drop(a, nd + 1)
      inner == Drop(b, 2)
      nb    == PrefixLen(inner, {inner[k] : k \in 1..Len(inner)} \ {"}"})
  IN  IF /\ idLen > 0
         /\ nd > 0
         /\ StartsWith(b, <<"]", "{">>)
         /\ nb > 0
         /\ Drop(inner, nb) = <<"}", ":">>
        THEN [ok |-> TRUE, name |-> Take(line, idLen),
              digits |-> SubSeq(a, 2, nd + 1), body |-> Take(inner, nb)]
        ELSE NoMatch

IsHeader(line) == MatchHeader(line).ok

NullHeader == [isNull |-> TRUE, name |-> <<>>, count |-> 0, fields |-> <<>>]

\* ParseHeader giving null for a header with no field left
ParseHeaderRejectsNoFields(line) ==
  LET m == MatchHeader(line)
  IN  IF ~m.ok \/ SplitTrimFilter(m.body) = <<>> THEN NullHeader
      ELSE [isNull |-> FALSE,
            name   |-> m.name,
            count  |-> ToInt(m.digits, 10),
            fields |-> SplitTrimFilter(m.body)]

ParseHeader(line) ==
  LET m == MatchHeader(line)
  IN  IF ~m.ok THEN NullHeader
      ELSE [isNull |-> FALSE,
            name   |-> m.name,
            count  |-> ToInt(m.digits, 10),
            fields |-> SplitTrimFilter(m.body)]

(***************************************************************************)
(* JavaScript objects. obj = {} inherits from Object.prototype: reading    *)
(* an inherited name finds the inherited value, and assigning to           *)
(* __proto__ calls the inherited setter instead of adding a key.           *)
(***************************************************************************)
cConstructor == <<"c", "o", "n", "s", "t", "r", "u", "c", "t", "o", "r">>

cHasOwnProperty == <<"h", "a", "s", "O", "w", "n", "P", "r", "o", "p", "e", "r", "t", "y">>

cIsPrototypeOf == <<"i", "s", "P", "r", "o", "t", "o", "t", "y", "p", "e", "O", "f">>

cPropertyIsEnumerable ==
  <<"p", "r", "o", "p", "e", "r", "t", "y", "I", "s", "E", "n", "u", "m", "e", "r", "a", "b",
    "l", "e">>

cToLocaleString == <<"t", "o", "L", "o", "c", "a", "l", "e", "S", "t", "r", "i", "n", "g">>

cToString == <<"t", "o", "S", "t", "r", "i", "n", "g">>

cValueOf == <<"v", "a", "l", "u", "e", "O", "f">>

cProto == <<"_", "_", "p", "r", "o", "t", "o", "_", "_">>

cDefineGetter == <<"_", "_", "d", "e", "f", "i", "n", "e", "G", "e", "t", "t", "e", "r", "_", "_">>

cDefineSetter == <<"_", "_", "d", "e", "f", "i", "n", "e", "S", "e", "t", "t", "e", "r", "_", "_">>

cLookupGetter == <<"_", "_", "l", "o", "o", "k", "u", "p", "G", "e", "t", "t", "e", "r", "_", "_">>

cLookupSetter == <<"_", "_", "l", "o", "o", "k", "u", "p", "S", "e", "t", "t", "e", "r", "_", "_">>
ObjectPrototypeNames ==
  { cConstructor, cHasOwnProperty, cIsPrototypeOf, cPropertyIsEnumerable,
    cToLocaleString, cToString, cValueOf, cProto,
    cDefineGetter, cDefineSetter, cLookupGetter, cLookupSetter }

\* const obj = {}
EmptyObject == [own |-> [k \in {} |-> JSNull], proto |-> "Object.prototype"]

\* obj[k] = v, v a primitive or null
SetField(obj, k, v) ==
  IF k = cProto /\ k \notin DOMAIN obj.own /\ obj.proto = "Object.prototype"
    THEN IF v = JSNull THEN [obj EXCEPT !.proto = "null"] ELSE obj
    ELSE [obj EXCEPT !.own = [x \in DOMAIN obj.own \cup {k} |->
                                 IF x = k THEN v ELSE obj.own[x]]]

RECURSIVE AssignFields(_, _, _, _)
\* for (let j = 0; j < fields.length; j++) obj[fields[j]] = parseValue(...)
AssignFields(obj, fields, row, j) ==
  IF j >= Len(fields) THEN obj
  ELSE AssignFields(
         SetField(obj, fields[j + 1],
                  ParseValue(IF j < Len(row) THEN row[j + 1] ELSE <<>>)),
         fields, row, j + 1)

\* the body of the row loop: one data line to one record
RowRecord(fields, line) == AssignFields(EmptyObject, fields, SplitTrimFilter(line), 0)

\* the own keys of the Document, and the position of one
HasOwn(doc, name) == \E k \in 1..Len(doc) : doc[k].name = name

IndexOf(doc, name) == CHOOSE k \in 1..Len(doc) : doc[k].name = name

Get(doc, name) == doc[IndexOf(doc, name)].rows

\* MergeBlock with a repeated name replacing the earlier rows
MergeBlockReplaces(doc, name, newRows) ==
  IF HasOwn(doc, name)
    THEN [threw |-> FALSE,
          doc   |-> [doc EXCEPT ![IndexOf(doc, name)].rows = newRows]]
  ELSE IF name \in ObjectPrototypeNames
    THEN [threw |-> TRUE, doc |-> doc]
  ELSE [threw |-> FALSE, doc |-> Append(doc, [name |-> name, rows |-> newRows])]

\* MergeBlock with a repeated name moved to the end of the keys
MergeBlockMovesKey(doc, name, newRows) ==
  IF HasOwn(doc, name)
    THEN [threw |-> FALSE,
          doc   |-> LET at == IndexOf(doc, name)
                    IN  SubSeq(doc, 1, at - 1) \o SubSeq(doc, at + 1, Len(doc))
                          \o <<[name |-> name, rows |-> doc[at].rows \o newRows]>>]
  ELSE IF name \in ObjectPrototypeNames
    THEN [threw |-> TRUE, doc |-> doc]
  ELSE [threw |-> FALSE, doc |-> Append(doc, [name |-> name, rows |-> newRows])]

\* if (!result[name]) result[name] = rows; else result[name] = result[name].concat(rows)
\* An inherited name reads as truthy and has no concat: a TypeError.
MergeBlock(doc, name, newRows) ==
  IF HasOwn(doc, name)
    THEN [threw |-> FALSE,
          doc   |-> [doc EXCEPT ![IndexOf(doc, name)].rows = @ \o newRows]]
  ELSE IF name \in ObjectPrototypeNames
    THEN [threw |-> TRUE, doc |-> doc]
  ELSE [threw |-> FALSE, doc |-> Append(doc, [name |-> name, rows |-> newRows])]

\* the arguments of the template of console.warn
Warning(name, count, parsed) == [name |-> name, expected |-> count, parsed |-> parsed]

(***************************************************************************)
(* The line normalizer (src/toon.js 113-116).                              *)
(***************************************************************************)
\* KeepLine without the test for #
KeepLineKeepsHash(l) == Len(l) > 0 /\ ~StartsWith(l, <<"/", "/">>)

KeepLine(l) == Len(l) > 0 /\ ~StartsWith(l, <<"#">>) /\ ~StartsWith(l, <<"/", "/">>)

RECURSIVE SelectKept(_)
SelectKept(ls) ==
  IF ls = <<>> THEN <<>>
  ELSE IF KeepLine(ls[1]) THEN <<ls[1]>> \o SelectKept(Tail(ls))
  ELSE SelectKept(Tail(ls))

Normalize(txt) ==
  LET split == Split(txt, "\n")
  IN  SelectKept([k \in 1..Len(split) |-> Trim(split[k])])

(***************************************************************************)
(* parseFromString as a function of its argument and of the host: the      *)
(* same loop (src/toon.js 111-173), run to its end.                        *)
(***************************************************************************)
\* what a caller and the console see of one call
Outcome(threw, doc, warns) ==
  [threw |-> threw, doc |-> IF threw THEN <<>> ELSE doc, warnings |-> warns]

\* the number of lines from index k (0-based) on that the row loop consumes
RowRun(ls, k) ==
  LET rest == Drop(ls, k)
  IN  PrefixLen(rest, {rest[j] : j \in {n \in 1..Len(rest) : ~IsHeader(rest[n])}})

RECURSIVE ScanFrom(_, _, _, _, _)
ScanFrom(ls, k, doc, warns, console) ==
  IF k >= Len(ls) THEN Outcome(FALSE, doc, warns)
  ELSE IF ~IsHeader(ls[k + 1]) \/ ParseHeader(ls[k + 1]).isNull
    THEN ScanFrom(ls, k + 1, doc, warns, console)
  ELSE LET h  == ParseHeader(ls[k + 1])
           n  == RowRun(ls, k + 1)
           rs == [j \in 1..n |-> RowRecord(h.fields, ls[k + 1 + j])]
           m  == MergeBlock(doc, h.name, rs)
       IN  IF m.threw THEN Outcome(TRUE, doc, warns)
           ELSE ScanFrom(ls, k + 1 + n, m.doc,
                         IF n # h.count /\ console
                           THEN Append(warns, Warning(h.name, h.count, n))
                           ELSE warns,
                         console)

ParseFromString(txt, console) == ScanFrom(Normalize(txt), 0, <<>>, <<>>, console)

(***************************************************************************)
(* The documents parsed: at most MaxLines raw lines of a pool, joined with *)
(* line breaks.                                                            *)
(***************************************************************************)
\* `a[1]{x,y}:`: header a, one row declared, fields x and y
LineA == <<"a", "[", "1", "]", "{", "x", ",", "y", "}", ":">>

\* `b[2]{__proto__,y}:`: header b, two rows declared, fields __proto__ and y
LineB == <<"b", "[", "2", "]", "{", "_", "_", "p", "r", "o", "t", "o", "_", "_", ",", "y", "}", ":">>

\* `toString[0]{x}:`: a header whose name Object.prototype has
LineToString == <<"t", "o", "S", "t", "r", "i", "n", "g", "[", "0", "]", "{", "x", "}", ":">>

\* ` null`: a data row of one token
RowNull == <<" ", "n", "u", "l", "l">>

\* `1,,3, 4`: a data row of four segments, the second empty
RowGap == <<"1", ",", ",", "3", ",", " ", "4">>

\* ` `: a blank line
LineBlank == <<" ">>

\* ` # n`: a comment
LineHash == <<" ", "#", " ", "n">>

\* `//`: a comment
LineSlashes == <<"/", "/">>

LinePool ==
  { LineA, LineB, LineToString,
    RowNull, RowGap, LineBlank, LineHash, LineSlashes }

\* the lines of the documents parsed under both hosts
HostLinePool == { LineA, LineB, LineToString, RowNull, RowGap }

RawDocs(pool) == UNION {[1..n -> pool] : n \in 0..MaxLines}

(***************************************************************************)
(* The record lists by identity: `const rows = []` (line 136) and concat   *)
(* (line 161) each make a new array, `result[name] = rows` (line 159)      *)
(* stores the array of the open block itself.                              *)
(***************************************************************************)
\* no array yet: allocated counts the arrays made so far, rows is the array of
\* the open block, lists[e] the array under the e-th key of result
EmptyHeap == [allocated |-> 0, rows |-> 0, lists |-> <<>>]

\* lines 158-162, on the identities
MergeLists(h, doc, name) ==
  IF HasOwn(doc, name)
    THEN [h EXCEPT !.allocated = @ + 1, !.lists[IndexOf(doc, name)] = h.allocated + 1]
    ELSE [h EXCEPT !.lists = Append(@, h.rows)]

\* parseFromLines has not been called
NoArgument == [kind |-> "none", items |-> <<>>]

(***************************************************************************)
(* parseFromString (src/toon.js 111-173), one action per step of its loop. *)
(***************************************************************************)
\* a call in a host with a console (a browser, Node.js)
Init ==
  /\ text \in {Join(ls, "\n") : ls \in RawDocs(LinePool)}
  /\ hasConsole = TRUE
  /\ pc = "start"
  /\ lines = <<>>
  /\ i = 0
  /\ result = <<>>
  /\ header = NullHeader
  /\ rows = <<>>
  /\ warnings = <<>>
  /\ raw = <<>>
  /\ ret = Undefined
  /\ linesArg = NoArgument
  /\ returned = <<>>
  /\ heap = EmptyHeap

\* a call in a host with or without a console
InitHost ==
  /\ text \in {Join(ls, "\n") : ls \in RawDocs(HostLinePool)}
  /\ hasConsole \in BOOLEAN
  /\ pc = "start"
  /\ lines = <<>>
  /\ i = 0
  /\ result = <<>>
  /\ header = NullHeader
  /\ rows = <<>>
  /\ warnings = <<>>
  /\ raw = <<>>
  /\ ret = Undefined
  /\ linesArg = NoArgument
  /\ returned = <<>>
  /\ heap = EmptyHeap

\* Start with result kept from the call before (a Document at module level)
StartKeepsResult ==
  /\ pc = "start"
  /\ lines' = Normalize(text)
  /\ i' = 0
  /\ pc' = "scan"
  /\ UNCHANGED <<text, hasConsole, result, header, rows, warnings, raw, ret,
                 linesArg, returned, heap>>

\* lines 113-119
Start ==
  /\ pc = "start"
  /\ lines' = Normalize(text)
  /\ result' = <<>>
  /\ i' = 0
  /\ pc' = "scan"
  /\ UNCHANGED <<text, hasConsole, header, rows, warnings, raw, ret, linesArg, returned>>
  /\ heap' = [heap EXCEPT !.lists = <<>>]

\* SkipLine keeping the skipped line as a record of a block of its own
SkipLineKeepsStray ==
  /\ pc = "scan"
  /\ i < Len(lines)
  /\ IF IsHeader(lines[i + 1]) THEN ParseHeader(lines[i + 1]).isNull ELSE TRUE
  /\ i' = i + 1
  /\ result' = Append(result, [name |-> <<"_">>, rows |-> <<RowRecord(<<>>, lines[i + 1])>>])
  /\ UNCHANGED <<text, hasConsole, pc, lines, header, rows, warnings, raw, ret,
               linesArg, returned, heap>>

\* lines 121-133: a line that is no header (or whose decomposition is null)
SkipLine ==
  /\ pc = "scan"
  /\ i < Len(lines)
  /\ IF IsHeader(lines[i + 1]) THEN ParseHeader(lines[i + 1]).isNull ELSE TRUE
  /\ i' = i + 1
  /\ UNCHANGED <<text, hasConsole, pc, lines, result, header, rows, warnings, raw, ret,
               linesArg, returned, heap>>

\* lines 121-138: a header line opens a block
OpenBlock ==
  /\ pc = "scan"
  /\ i < Len(lines)
  /\ IsHeader(lines[i + 1])
  /\ ~ParseHeader(lines[i + 1]).isNull
  /\ header' = ParseHeader(lines[i + 1])
  /\ rows' = <<>>
  /\ i' = i + 1
  /\ pc' = "rows"
  /\ UNCHANGED <<text, hasConsole, lines, result, warnings, raw, ret, linesArg, returned>>
  /\ heap' = [heap EXCEPT !.allocated = @ + 1, !.rows = heap.allocated + 1]

\* ConsumeRow dropping the rows beyond the declared count
ConsumeRowUpToCount ==
  /\ pc = "rows"
  /\ i < Len(lines)
  /\ ~IsHeader(lines[i + 1])
  /\ rows' = IF Len(rows) < header.count
               THEN Append(rows, RowRecord(header.fields, lines[i + 1]))
               ELSE rows
  /\ i' = i + 1
  /\ UNCHANGED <<text, hasConsole, pc, lines, result, header, warnings, raw, ret,
               linesArg, returned, heap>>

\* lines 141-154
ConsumeRow ==
  /\ pc = "rows"
  /\ i < Len(lines)
  /\ ~IsHeader(lines[i + 1])
  /\ rows' = Append(rows, RowRecord(header.fields, lines[i + 1]))
  /\ i' = i + 1
  /\ UNCHANGED <<text, hasConsole, pc, lines, result, header, warnings, raw, ret,
               linesArg, returned, heap>>

\* FinalizeBlock warning only of a block shorter than declared
FinalizeBlockWarnsShort ==
  /\ pc = "rows"
  /\ ~(i < Len(lines) /\ ~IsHeader(lines[i + 1]))
  /\ LET m == MergeBlock(result, header.name, rows)
     IN  IF m.threw
           THEN /\ pc' = "threw"
                /\ UNCHANGED <<result, warnings>>
           ELSE /\ pc' = "scan"
                /\ result' = m.doc
                /\ warnings' =
                     IF Len(rows) < header.count /\ hasConsole
                       THEN Append(warnings, Warning(header.name, header.count, Len(rows)))
                       ELSE warnings
  /\ UNCHANGED <<text, hasConsole, lines, i, header, rows, raw, ret, linesArg, returned>>
  /\ heap' = IF MergeBlock(result, header.name, rows).threw
               THEN heap
               ELSE MergeLists(heap, result, header.name)

\* lines 156-169: the row loop has ended; merge, then warn
FinalizeBlock ==
  /\ pc = "rows"
  /\ ~(i < Len(lines) /\ ~IsHeader(lines[i + 1]))
  /\ LET m == MergeBlock(result, header.name, rows)
     IN  IF m.threw
           THEN /\ pc' = "threw"
                /\ UNCHANGED <<result, warnings>>
           ELSE /\ pc' = "scan"
                /\ result' = m.doc
                /\ warnings' =
                     IF Len(rows) # header.count /\ hasConsole
                       THEN Append(warnings, Warning(header.name, header.count, Len(rows)))
                       ELSE warnings
  /\ UNCHANGED <<text, hasConsole, lines, i, header, rows, raw, ret, linesArg, returned>>
  /\ heap' = IF MergeBlock(result, header.name, rows).threw
               THEN heap
               ELSE MergeLists(heap, result, header.name)

\* line 172
Return ==
  /\ pc = "scan"
  /\ i >= Len(lines)
  /\ pc' = "done"
  /\ UNCHANGED <<text, hasConsole, lines, i, result, header, rows, warnings, raw, ret,
               linesArg, returned, heap>>

Next == Start \/ SkipLine \/ OpenBlock \/ ConsumeRow \/ FinalizeBlock \/ Return

Spec == Init /\ [][Next]_vars

SpecHost == InitHost /\ [][Next]_vars

(***************************************************************************)
(* SpecFields: parseFromString on texts with a header whose braces hold    *)
(* no field name.                                                          *)
(***************************************************************************)
\* `b[0]{ , }:`: a header whose brace content is commas and blanks
LineNoFields == <<"b", "[", "0", "]", "{", " ", ",", " ", "}", ":">>

FieldsLinePool == { LineA, LineNoFields, LineToString, RowNull, RowGap }

InitFields ==
  /\ text \in {Join(ls, "\n") : ls \in RawDocs(FieldsLinePool)}
  /\ hasConsole = TRUE
  /\ pc = "start"
  /\ lines = <<>>
  /\ i = 0
  /\ result = <<>>
  /\ header = NullHeader
  /\ rows = <<>>
  /\ warnings = <<>>
  /\ raw = <<>>
  /\ ret = Undefined
  /\ linesArg = NoArgument
  /\ returned = <<>>
  /\ heap = EmptyHeap

SpecFields == InitFields /\ [][Next]_vars

(***************************************************************************)
(* parseFromLines (src/toon.js 180-185), called with an array of strings   *)
(* of at most MaxLines elements or with a value that is no array.          *)
(***************************************************************************)
\* `a[1]{x,y}:\n null`: one element holding two lines
TwoLines == LineA \o <<"\n">> \o RowNull

\* the elements of the arrays the caller passes
ElementPool == { LineA, LineToString, RowNull, RowGap, TwoLines }

ArrayOf(items) == [kind |-> "array", items |-> items]

\* values that are no array: undefined, null, a string (the text itself, its
\* characters indexable), an object with a length and indexed properties
NonArrays ==
  { [kind |-> "undefined", items |-> <<>>],
    [kind |-> "null", items |-> <<>>],
    [kind |-> "string", items |-> [c \in 1..Len(TwoLines) |-> <<TwoLines[c]>>]],
    [kind |-> "object", items |-> <<LineA, RowNull>>] }

\* a test for a length and indexed properties in the place of Array.isArray
IsArrayLike(value) == value.kind \in {"array", "string", "object"}

\* Array.isArray (line 181)
IsArray(value) == value.kind = "array"

InitLines ==
  /\ linesArg \in {ArrayOf(ls) : ls \in RawDocs(ElementPool)} \cup NonArrays
  /\ pc = "parseFromLines"
  /\ text = <<>>
  /\ hasConsole = TRUE
  /\ lines = <<>>
  /\ i = 0
  /\ result = <<>>
  /\ header = NullHeader
  /\ rows = <<>>
  /\ warnings = <<>>
  /\ raw = <<>>
  /\ ret = Undefined
  /\ returned = <<>>
  /\ heap = EmptyHeap

\* lines 181-183: throw new Error('Toon.parseFromLines expects an array of strings')
ThrowNotArray ==
  /\ pc = "parseFromLines"
  /\ ~IsArray(linesArg)
  /\ pc' = "rejected"
  /\ UNCHANGED <<text, hasConsole, lines, i, result, header, rows, warnings, raw, ret,
                 linesArg, returned, heap>>

\* CallParseFromString joining with the default separator of join, a comma
CallParseFromStringDefaultJoin ==
  /\ pc = "parseFromLines"
  /\ IsArray(linesArg)
  /\ text' = Join(linesArg.items, ",")
  /\ pc' = "start"
  /\ UNCHANGED <<hasConsole, lines, i, result, header, rows, warnings, raw, ret,
                 linesArg, returned, heap>>

\* line 184: return parseFromString(lines.join('\n'))
CallParseFromString ==
  /\ pc = "parseFromLines"
  /\ IsArray(linesArg)
  /\ text' = Join(linesArg.items, "\n")
  /\ pc' = "start"
  /\ UNCHANGED <<hasConsole, lines, i, result, header, rows, warnings, raw, ret,
                 linesArg, returned, heap>>

NextLines == ThrowNotArray \/ CallParseFromString \/ Next

SpecLines == InitLines /\ [][NextLines]_vars

(***************************************************************************)
(* SpecCalls: at most MaxCalls calls of parseFromString one after another, *)
(* the first text parsed again after calls on other texts.                 *)
(***************************************************************************)
CallLinePool == { LineA, RowNull, RowGap }

\* `toString[0]{x}:` and `a[1]{x,y}:\n1,,3, 4`
OtherTexts == { LineToString, Join(<<LineA, RowGap>>, "\n") }

InitCalls ==
  /\ text \in {Join(ls, "\n") : ls \in RawDocs(CallLinePool)}
  /\ hasConsole = TRUE
  /\ pc = "start"
  /\ lines = <<>>
  /\ i = 0
  /\ result = <<>>
  /\ header = NullHeader
  /\ rows = <<>>
  /\ warnings = <<>>
  /\ raw = <<>>
  /\ ret = Undefined
  /\ linesArg = NoArgument
  /\ returned = <<>>
  /\ heap = EmptyHeap

\* what the call that has ended gave its caller: the Document (or the throw),
\* the warnings of the call, the identities of the record lists of the Document
CompletedCall ==
  [ text    |-> text,
    outcome |-> Outcome(pc = "threw", result, warnings),
    lists   |-> IF pc = "threw" THEN <<>> ELSE heap.lists ]

\* line 111: the caller, holding what it was given, calls parseFromString again;
\* the locals of the call are set by lines 113-136 before they are read
CallAgain ==
  /\ pc \in {"done", "threw"}
  /\ Len(returned) + 1 < MaxCalls
  /\ returned' = Append(returned, CompletedCall)
  /\ text' \in {returned'[1].text} \cup OtherTexts
  /\ warnings' = <<>>
  /\ pc' = "start"
  /\ UNCHANGED <<hasConsole, lines, i, result, header, rows, raw, ret, linesArg, heap>>

NextCalls == CallAgain \/ Next

SpecCalls == InitCalls /\ [][NextCalls]_vars

(***************************************************************************)
(* SpecValue: parseValue applied to every token made of at most MaxParts   *)
(* pieces.                                                                 *)
(***************************************************************************)
TokenPieces ==
  { cTrue, cFalse, cNull, cInfinity,
    <<"T", "r", "u", "e">>, <<"F", "A", "L", "S", "E">>,
    <<"0", "x">>, <<"1", "F">>, <<"0">>, <<"4", "2">>, <<"5">>,
    <<".">>, <<"-">>, <<"+">>, <<"e">>, <<cQuote>>, <<" ">>, <<"\r">>, <<"h", "i">> }

RECURSIVE TokensOf(_)
TokensOf(n) ==
  IF n = 0 THEN {<<>>}
  ELSE LET shorter == TokensOf(n - 1)
       IN  shorter \cup {a \o b : a \in shorter, b \in TokenPieces}

Tokens == TokensOf(MaxParts)

InitValue ==
  /\ raw \in Tokens
  /\ ret = Undefined
  /\ pc = "parseValue"
  /\ text = <<>>
  /\ hasConsole = TRUE
  /\ lines = <<>>
  /\ i = 0
  /\ result = <<>>
  /\ header = <<>>
  /\ rows = <<>>
  /\ warnings = <<>>
  /\ linesArg = NoArgument
  /\ returned = <<>>
  /\ heap = EmptyHeap

CallParseValue ==
  /\ pc = "parseValue"
  /\ ret' = ParseValue(raw)
  /\ pc' = "returned"
  /\ UNCHANGED <<text, hasConsole, lines, i, result, header, rows, warnings, raw,
               linesArg, returned, heap>>

NextValue == CallParseValue

SpecValue == InitValue /\ [][NextValue]_vars

(***************************************************************************)
(* What the claims speak of, stated over the normalized lines.             *)
(***************************************************************************)
\* the index (1-based) of the first header line after line k, or one past the end
BlockEnd(ls, k) ==
  IF \E j \in (k + 1)..Len(ls) : IsHeader(ls[j])
    THEN CHOOSE j \in (k + 1)..Len(ls) :
           IsHeader(ls[j]) /\ \A n \in (k + 1)..(j - 1) : ~IsHeader(ls[n])
    ELSE Len(ls) + 1

\* the data lines of the block whose header is line k
BlockLines(ls, k) == SubSeq(ls, k + 1, BlockEnd(ls, k) - 1)

\* their records
BlockRecords(ls, k) ==
  LET body == BlockLines(ls, k)
  IN  [j \in 1..Len(body) |-> RowRecord(ParseHeader(ls[k]).fields, body[j])]

RECURSIVE ConcatBlocks(_, _, _)
\* the records of every block named name from line k on, in document order
ConcatBlocks(ls, name, k) ==
  IF k > Len(ls) THEN <<>>
  ELSE (IF IsHeader(ls[k]) /\ ParseHeader(ls[k]).name = name
          THEN BlockRecords(ls, k) ELSE <<>>)
       \o ConcatBlocks(ls, name, k + 1)

HeaderLines(ls) == {k \in 1..Len(ls) : IsHeader(ls[k])}

\* while pc = "rows": the index (1-based) of the header of the open block
OpenHeaderIndex == CHOOSE k \in 1..i : IsHeader(lines[k]) /\ \A n \in (k + 1)..i : ~IsHeader(lines[n])

\* the row loop has ended
RowLoopEnded == pc = "rows" /\ ~(i < Len(lines) /\ ~IsHeader(lines[i + 1]))

Ended == pc \in {"done", "threw"}

\* what the caller and the console have seen of the call
Seen == Outcome(pc = "threw", result, warnings)

FieldSet(fields) == {fields[j] : j \in 1..Len(fields)}

(***************************************************************************)
(* C1: when parseFromString has returned, the record list under each block *)
(* name is the concatenation, in document order, of the rows of every      *)
(* header block of that name: a repeated name appends, never replaces.     *)
(***************************************************************************)
MergeLaw ==
  pc = "done" =>
    \A k \in HeaderLines(lines) :
      LET name == ParseHeader(lines[k]).name
      IN  /\ HasOwn(result, name)
          /\ Get(result, name) = ConcatBlocks(lines, name, 1)

\* a returned Document with two blocks of one name, both with rows, the rows differing
MergeLawWitness ==
  /\ pc = "done"
  /\ \E k1, k2 \in HeaderLines(lines) :
       /\ k1 < k2
       /\ ParseHeader(lines[k1]).name = ParseHeader(lines[k2]).name
       /\ BlockRecords(lines, k1) # <<>>
       /\ BlockRecords(lines, k2) # <<>>
       /\ BlockRecords(lines, k1) # BlockRecords(lines, k2)

(***************************************************************************)
(* C2: parseFromString raises no error, whatever the lines and whatever    *)
(* identifier names a block.                                               *)
(***************************************************************************)
NeverThrows == pc # "threw"

(***************************************************************************)
(* C3: the number of records produced for a header block is the number of  *)
(* non-header lines between its header and the next header or the end,     *)
(* whatever the declared count.                                            *)
(***************************************************************************)
RowCountIsLineCount ==
  RowLoopEnded =>
    Len(rows) = BlockEnd(lines, OpenHeaderIndex) - OpenHeaderIndex - 1

\* a block finished with two rows where one was declared
RowCountWitness ==
  /\ RowLoopEnded
  /\ header.count = 1
  /\ Len(rows) = 2

(***************************************************************************)
(* C4: the key set of every record of a block is the set of the field      *)
(* names of the block's header, however many tokens the row has.           *)
(***************************************************************************)
RecordKeysAreFields ==
  pc = "rows" =>
    \A m \in 1..Len(rows) : DOMAIN rows[m].own = FieldSet(header.fields)

(***************************************************************************)
(* C5: a field whose value is missing from a row (fewer tokens than        *)
(* fields) holds the empty string: the empty token is not coerced to a     *)
(* number.                                                                 *)
(***************************************************************************)
MissingFieldIsEmptyString ==
  pc = "rows" =>
    \A m \in 1..Len(rows) :
      LET tokens == SplitTrimFilter(lines[OpenHeaderIndex + m])
      IN  \A j \in (Len(tokens) + 1)..Len(header.fields) :
            header.fields[j] \in DOMAIN rows[m].own
              => rows[m].own[header.fields[j]] = JSStr(<<>>)

(***************************************************************************)
(* C6: the token true wrapped in double quotes coerces to the boolean      *)
(* true, because the boolean rule runs before the quotes are stripped.     *)
(***************************************************************************)
Quoted(s) == <<cQuote>> \o s \o <<cQuote>>

QuotedTrueIsBoolean ==
  (pc = "returned" /\ raw = Quoted(cTrue)) => ret = JSBool(TRUE)

(***************************************************************************)
(* C6 as amended: the boolean and null rules run on the token with its     *)
(* quotes, which true, false or null in double quotes does not match; the  *)
(* token coerces to the string between the quotes.                         *)
(***************************************************************************)
QuotedKeywordIsString ==
  pc = "returned" =>
    \A w \in {cTrue, cFalse, cNull} : Trim(raw) = Quoted(w) => ret = JSStr(w)

QuotedTrueWitness == pc = "returned" /\ raw = Quoted(cTrue) /\ ret = JSStr(cTrue)

(***************************************************************************)
(* C7: a non-empty token with no double quote coerces by the first         *)
(* matching rule: exactly true or false to a boolean, exactly null to      *)
(* null, a decimal literal (optional sign, digits, optional decimal point, *)
(* optional exponent) to a number, anything else to itself as a string.    *)
(***************************************************************************)
IsDecimalLiteral(t) ==
  LET u == IF t # <<>> /\ t[1] \in {"+", "-"} THEN Tail(t) ELSE t
  IN  u # cInfinity /\ StrDecimal(u, FALSE) # NaN

FirstMatchingRule ==
  (/\ pc = "returned"
   /\ raw # <<>>
   /\ raw = Trim(raw)
   /\ \A k \in 1..Len(raw) : raw[k] # cQuote)
  => ret = (IF raw = cTrue THEN JSBool(TRUE)
            ELSE IF raw = cFalse THEN JSBool(FALSE)
            ELSE IF raw = cNull THEN JSNull
            ELSE IF IsDecimalLiteral(raw) THEN StringToNumber(raw)
            ELSE JSStr(raw))

(***************************************************************************)
(* C8: removing every line that is blank after trimming or that, trimmed,  *)
(* starts with # or // changes neither the Document nor the diagnostics.   *)
(***************************************************************************)
IsNoise(rawLine) ==
  LET t == Trim(rawLine)
  IN  t = <<>> \/ StartsWith(t, <<"#">>) \/ StartsWith(t, <<"/", "/">>)

RECURSIVE Without(_, _)
Without(ls, k) ==
  IF k > Len(ls) THEN <<>>
  ELSE (IF IsNoise(ls[k]) THEN <<>> ELSE <<ls[k]>>) \o Without(ls, k + 1)

StripNoise(txt) == Join(Without(Split(txt, "\n"), 1), "\n")

StrippingChangesNothing ==
  Ended => Seen = ParseFromString(StripNoise(text), hasConsole)

\* a returned Document of a text with a blank or comment line between two data rows
StrippingWitness ==
  /\ pc = "done"
  /\ \E e \in 1..Len(result) : Len(result[e].rows) >= 2
  /\ LET rl == Split(text, "\n")
     IN  \E k \in 2..(Len(rl) - 1) :
           /\ IsNoise(rl[k])
           /\ ~IsNoise(rl[k - 1]) /\ ~IsHeader(Trim(rl[k - 1]))
           /\ ~IsNoise(rl[k + 1]) /\ ~IsHeader(Trim(rl[k + 1]))

(***************************************************************************)
(* C9: a non-header line before the first header line is skipped: it adds  *)
(* no key and no record, raises no error and does not affect the blocks    *)
(* that follow.                                                            *)
(***************************************************************************)
\* the text from its first header line on
FromFirstHeader(txt) ==
  LET rl == Split(txt, "\n")
      hs == {k \in 1..Len(rl) : IsHeader(Trim(rl[k]))}
  IN  IF hs = {} THEN <<>>
      ELSE Join(SubSeq(rl, CHOOSE k \in hs : \A n \in hs : k <= n, Len(rl)), "\n")

StrayLinesSkipped ==
  /\ (pc \in {"scan", "done"} /\ \A k \in 1..i : ~IsHeader(lines[k]))
       => (result = <<>> /\ warnings = <<>>)
  /\ Ended => Seen = ParseFromString(FromFirstHeader(text), hasConsole)

\* a returned Document with records, of a text whose first line is a data row
StrayLinesWitness ==
  /\ pc = "done"
  /\ lines # <<>>
  /\ ~IsHeader(lines[1])
  /\ \E e \in 1..Len(result) : result[e].rows # <<>>

(***************************************************************************)
(* C10: a warning is emitted when a block is finalized if and only if the  *)
(* number of rows parsed for it differs from its declared count; it        *)
(* carries the name, the declared count and the parsed count.              *)
(***************************************************************************)
RECURSIVE MismatchWarnings(_, _, _)
\* the warnings of the blocks whose header is among lines k..last
MismatchWarnings(ls, k, last) ==
  IF k > last THEN <<>>
  ELSE (IF IsHeader(ls[k]) /\ Len(BlockLines(ls, k)) # ParseHeader(ls[k]).count
          THEN <<Warning(ParseHeader(ls[k]).name, ParseHeader(ls[k]).count,
                         Len(BlockLines(ls, k)))>>
          ELSE <<>>)
       \o MismatchWarnings(ls, k + 1, last)

\* the blocks whose header is at or before this line have been merged
MergedUpTo == IF pc \in {"rows", "threw"} THEN OpenHeaderIndex - 1 ELSE i

WarningIffMismatch == warnings = MismatchWarnings(lines, 1, MergedUpTo)

(***************************************************************************)
(* C10 as amended: a warning is emitted right after a block is merged if   *)
(* and only if its row count differs from its declared count and the host  *)
(* has a console; the Document and the error raised are the same with and  *)
(* without a console.                                                      *)
(***************************************************************************)
WarningIffMismatchAndConsole ==
  /\ warnings = IF hasConsole THEN MismatchWarnings(lines, 1, MergedUpTo) ELSE <<>>
  /\ Ended =>
       LET other == ParseFromString(text, ~hasConsole)
       IN  Seen.doc = other.doc /\ Seen.threw = other.threw

\* a returned Document, a console, one block as declared and one not
WarningWitness ==
  /\ pc = "done"
  /\ hasConsole
  /\ Len(warnings) = 1
  /\ Cardinality(HeaderLines(lines)) = 2
  /\ \E e \in 1..Len(result) : result[e].rows # <<>>

(***************************************************************************)
(* C11: the keys of the returned Document are the distinct block names of  *)
(* the header lines, in the order of their first occurrence; a header      *)
(* followed by no row still yields its key, with an empty record list.     *)
(***************************************************************************)
RECURSIVE FirstOccurrences(_, _, _)
\* the names of the header lines from line k on that are not in seen, each once
FirstOccurrences(ls, k, seen) ==
  IF k > Len(ls) THEN <<>>
  ELSE IF IsHeader(ls[k]) /\ ParseHeader(ls[k]).name \notin seen
    THEN <<ParseHeader(ls[k]).name>>
           \o FirstOccurrences(ls, k + 1, seen \cup {ParseHeader(ls[k]).name})
  ELSE FirstOccurrences(ls, k + 1, seen)

KeysInFirstOccurrenceOrder ==
  pc = "done" =>
    /\ [e \in 1..Len(result) |-> result[e].name] = FirstOccurrences(lines, 1, {})
    /\ \A k \in HeaderLines(lines) :
         BlockLines(lines, k) = <<>> => HasOwn(result, ParseHeader(lines[k]).name)

\* a returned Document of two keys, the first name repeated after the second,
\* one key with an empty list
KeysWitness ==
  /\ pc = "done"
  /\ Len(result) = 2
  /\ \E e \in 1..2 : result[e].rows = <<>>
  /\ \E k1, k2, k3 \in HeaderLines(lines) :
       /\ k1 < k2 /\ k2 < k3
       /\ ParseHeader(lines[k1]).name = ParseHeader(lines[k3]).name
       /\ ParseHeader(lines[k1]).name # ParseHeader(lines[k2]).name

(***************************************************************************)
(* C12: parseFromLines called with a value that is no array throws at      *)
(* once: the call never reaches parseFromString, no line is parsed, no     *)
(* Document is built and nothing is warned of.                             *)
(***************************************************************************)
NonArrayRejected ==
  linesArg.kind # "array" =>
    /\ pc \in {"parseFromLines", "rejected"}
    /\ text = <<>> /\ lines = <<>> /\ i = 0
    /\ result = <<>> /\ rows = <<>> /\ warnings = <<>>
    /\ heap = EmptyHeap

\* the text passed where the array of its lines was expected, the call rejected
NonArrayWitness == pc = "rejected" /\ linesArg.kind = "string"

(***************************************************************************)
(* C13: parseFromLines(L), L an array of strings, ends as parseFromString  *)
(* does on the elements of L joined with a newline: the same Document, or  *)
(* the same throw.                                                         *)
(***************************************************************************)
LinesAsJoinedText ==
  (Ended /\ linesArg.kind = "array") =>
    Seen = ParseFromString(Join(linesArg.items, "\n"), hasConsole)

\* parseFromLines has returned a Document with a record, from two elements or more
LinesWitness ==
  /\ pc = "done"
  /\ linesArg.kind = "array"
  /\ Len(linesArg.items) >= 2
  /\ \E e \in 1..Len(result) : result[e].rows # <<>>

(***************************************************************************)
(* C14: parseFromString keeps nothing from one call to the next: two calls *)
(* on the same text, whatever was parsed in between, end alike (the same   *)
(* throw, or Documents equal key by key and record by record), and the     *)
(* Documents of two calls have no record list (array) in common.           *)
(***************************************************************************)
\* the calls that have ended, oldest first
CallsEnded == IF Ended THEN Append(returned, CompletedCall) ELSE returned

ListsOf(call) == {call.lists[e] : e \in DOMAIN call.lists}

CallsAgree ==
  \A a, b \in 1..Len(CallsEnded) :
    a < b =>
      /\ CallsEnded[a].text = CallsEnded[b].text =>
           /\ CallsEnded[a].outcome.threw = CallsEnded[b].outcome.threw
           /\ CallsEnded[a].outcome.doc = CallsEnded[b].outcome.doc
      /\ ListsOf(CallsEnded[a]) \cap ListsOf(CallsEnded[b]) = {}

\* the first text parsed a second time after a call on another text, the
\* Document with a merged key
CallsWitness ==
  /\ pc = "done"
  /\ Len(returned) = 2
  /\ returned[1].text = text
  /\ returned[2].text # text
  /\ \E e \in 1..Len(result) : Len(result[e].rows) >= 2

(***************************************************************************)
(* C15: in every record the value under fields[j] is the coercion of the   *)
(* j-th comma-separated segment of the row, counted over all the segments, *)
(* the empty ones too (the empty token where the row has no j-th segment): *)
(* an empty segment in the middle of a row shifts no later value.          *)
(***************************************************************************)
\* the j-th (1-based) segment of a row, the empty token beyond the last
SegmentAt(line, j) ==
  LET segments == Split(line, ",")
  IN  IF j <= Len(segments) THEN segments[j] ELSE <<>>

SegmentsMapByPosition ==
  pc = "rows" =>
    \A m \in 1..Len(rows) :
      \A j \in 1..Len(header.fields) :
        header.fields[j] \in DOMAIN rows[m].own
          => rows[m].own[header.fields[j]]
               = ParseValue(SegmentAt(lines[OpenHeaderIndex + m], j))

(***************************************************************************)
(* C16: a token in one pair of double quotes spanning the whole token,     *)
(* whose content is not true, false or null, coerces to the content        *)
(* between the quotes as a string, its characters unchanged: "42" in its   *)
(* quotes gives the string 42, no number.                                  *)
(***************************************************************************)
QuotedContentIsString ==
  (/\ pc = "returned"
   /\ Len(Trim(raw)) >= 2
   /\ Trim(raw) = Quoted(SubSeq(Trim(raw), 2, Len(Trim(raw)) - 1))
   /\ SubSeq(Trim(raw), 2, Len(Trim(raw)) - 1) \notin {cTrue, cFalse, cNull})
  => ret = JSStr(SubSeq(Trim(raw), 2, Len(Trim(raw)) - 1))

(***************************************************************************)
(* C17: a header line whose brace content leaves no field (every entry     *)
(* between the commas empty after trimming) is a header all the same: it   *)
(* ends the rows of the block before it, which is merged, it opens a block *)
(* in which every data line gives one record with no key, and its name is  *)
(* a key of the returned Document, these records in its list.              *)
(***************************************************************************)
\* the lines (1-based) that match the header pattern with no field between the braces
ZeroFieldHeaders(ls) ==
  {k \in 1..Len(ls) :
     /\ MatchHeader(ls[k]).ok
     /\ \A n \in 1..Len(Split(MatchHeader(ls[k]).body, ",")) :
          Trim(Split(MatchHeader(ls[k]).body, ",")[n]) = <<>>}

\* the header pattern's name of line k
NameAt(ls, k) == MatchHeader(ls[k]).name

ConsumedAsHeader ==
  /\ pc = "scan" /\ pc' = "rows"
  /\ IsHeader(lines[i + 1])
  /\ header' = ParseHeader(lines[i + 1]) /\ rows' = <<>>

\* the step consumes line i + 1 as a data row of the open block
ConsumedAsRow ==
  /\ pc = "rows" /\ pc' = "rows"
  /\ ~IsHeader(lines[i + 1])
  /\ header' = header /\ Len(rows') = Len(rows) + 1

\* the step skips line i + 1, a stray line before the first header
ConsumedAsStray ==
  /\ pc = "scan" /\ pc' = "scan"
  /\ \A n \in 1..(i + 1) : ~IsHeader(lines[n])
  /\ result' = result /\ result = <<>>

\* a step leaves the index or moves it to the next line, consumed in one role
ScanStep ==
  /\ lines' = lines \/ pc = "start"
  /\ i' = i \/ (i' = i + 1 /\ i < Len(lines))
  /\ i' = i + 1 =>
       \/ ConsumedAsHeader /\ ~ConsumedAsRow /\ ~ConsumedAsStray
       \/ ConsumedAsRow /\ ~ConsumedAsHeader /\ ~ConsumedAsStray
       \/ ConsumedAsStray /\ ~ConsumedAsHeader /\ ~ConsumedAsRow
  \* the open block is ended before the next header is consumed
  /\ (pc = "rows" /\ i < Len(lines) /\ IsHeader(lines[i + 1])) => i' = i

\* the index never decreases; each move is to the next line, in one role
IndexAdvancesInOneRole == [][ScanStep]_vars

RECURSIVE CountRecords(_)
\* the number of records in the Document
CountRecords(doc) ==
  IF doc = <<>> THEN 0 ELSE Len(Head(doc).rows) + CountRecords(Tail(doc))

\* the lines (1-based) up to n that are data rows: no header, after a header
RowLines(ls, n) ==
  {k \in 1..n : ~IsHeader(ls[k]) /\ \E h \in 1..(k - 1) : IsHeader(ls[h])}

\* every step lowers it, and it is never negative: the scan ends
Measure ==
  IF pc = "start" THEN 3 * Len(Normalize(text)) + 3
  ELSE 3 * (Len(lines) - i)
         + (IF pc = "rows" THEN 2 ELSE IF pc = "scan" THEN 1 ELSE 0)

ScanEnds == [][Measure' < Measure]_vars

\* at every point of the scan the lines up to the index have been consumed once
\* each (a record for each data row and no more, the open block that of the last
\* header, nothing kept of the stray lines), and when the scan is over every line
\* has been consumed
EachLineConsumedOnce ==
  /\ pc \in {"scan", "rows", "done", "threw"} =>
       /\ i <= Len(lines)
       /\ CountRecords(result) + (IF pc \in {"rows", "threw"} THEN Len(rows) ELSE 0)
            = Cardinality(RowLines(lines, i))
       /\ pc = "rows" => header = ParseHeader(lines[OpenHeaderIndex])
       /\ (\A n \in 1..i : ~IsHeader(lines[n])) => result = <<>> /\ pc # "rows"
  /\ Ended => i = Len(lines)

====
